---- MODULE Spec2Model ----
(***************************************************************************)
(* DocSnap: the chunked summarization pipeline behind POST /api/summarize  *)
(* (blocking) and POST /api/summarize-stream (progressive), with the       *)
(* process-wide usage tracker the two endpoints share.                     *)
(*                                                                         *)
(* One asyncio event loop serves all requests: a handler runs without      *)
(* interleaving from one await (or, in the generator, one yield) to the    *)
(* next, so each action below is the code between two suspension points.   *)
(***************************************************************************)
EXTENDS Integers, Sequences, FiniteSets, TLC

\* ------------------------------------------------------------------ bounds
\* Number of requests the model lets arrive.
NumReq == 2
\* Month keys are 1..MaxMonth; the clock starts in month 1.
MaxMonth == 2

\* ------------------------------------------------------- program constants
MaxFileSizeMB == 10
MonthlyLimit == 30000
MaxChunkSize == 1000

Req == 1..NumReq
Months == 1..MaxMonth

Max(a, b) == IF a >= b THEN a ELSE b

\* ------------------------------------------------------------------ inputs
\* A document as pdfplumber sees it: whether it opens, the number of
\* characters the pages give (page texts joined with "\n"), and how many of
\* these are leading or trailing whitespace (all of them for a scanned or
\* blank document).
Docs ==
    { [valid |-> FALSE, rawLen |-> 0, ws |-> 0],
      [valid |-> TRUE, rawLen |-> 3, ws |-> 3],
      [valid |-> TRUE, rawLen |-> 501, ws |-> 1],
      [valid |-> TRUE, rawLen |-> 2401, ws |-> 1] }

Doc500 == [valid |-> TRUE, rawLen |-> 501, ws |-> 1]

\* Uploads: a file name that ends in .pdf or not, a size in bytes, a document.
Files ==
    { [pdf |-> TRUE, size |-> 4096, doc |-> d] : d \in Docs }
    \cup { [pdf |-> FALSE, size |-> 4096, doc |-> Doc500],
           [pdf |-> TRUE, size |-> 11 * 1024 * 1024, doc |-> Doc500],
           [pdf |-> FALSE, size |-> 11 * 1024 * 1024, doc |-> Doc500] }

\* The summary_text the remote model returns for chunk i, as a character
\* sequence. The model is called with do_sample = False, so a chunk has one
\* summary; the summaries of different chunks differ, and they may begin or
\* end with whitespace.
SummariesFor(i) ==
    IF i = 0 THEN { <<" ", "A">> }
    ELSE IF i = 1 THEN { <<"b">> }
    ELSE { <<"C", " ">> }

\* What client.post for chunk i can end in: an HTTP response (its status and
\* the shape of its JSON body: "summary" is [{"summary_text": text}],
\* "object" a JSON object), the client's 30 s timeout, or another transport
\* error.
Responses(i) ==
    { [kind |-> "response", status |-> 200, body |-> "summary", text |-> s] :
          s \in SummariesFor(i) }
    \cup { [kind |-> "response", status |-> 200, body |-> "object", text |-> <<>>] }
    \cup { [kind |-> "response", status |-> c, body |-> "object", text |-> <<>>] :
          c \in {429, 503, 500} }
    \cup { [kind |-> "timeout", status |-> 0, body |-> "none", text |-> <<>>],
           [kind |-> "transport", status |-> 0, body |-> "none", text |-> <<>>] }

\* Usage the tracker may hold when the first modelled request arrives: none
\* (process start) or what earlier requests of month 1 have accumulated.
InitialUsed == {0, 29500}

\* ----------------------------------------------------------- usage tracker
UsageGet(u, k) == IF k \in DOMAIN u THEN u[k] ELSE 0

\* Seeded fault: track writes a fixed key instead of the current month key.
TrackOtherKey(u, m, n) ==
    [k \in DOMAIN u \cup {MaxMonth} |->
        IF k = MaxMonth THEN UsageGet(u, MaxMonth) + n ELSE u[k]]

\* Seeded fault: the count of the request replaces the counter.
TrackOverwrite(u, m, n) ==
    [k \in DOMAIN u \cup {m} |-> IF k = m THEN n ELSE u[k]]

\* UsageTracker.track: usage[month_key] += char_count on a defaultdict(int).
Track(u, m, n) ==
    [k \in DOMAIN u \cup {m} |-> IF k = m THEN UsageGet(u, m) + n ELSE u[k]]

\* UsageTracker.get_remaining: max(0, monthly_limit - usage.get(month_key, 0)).
GetRemaining(u, m) == Max(0, MonthlyLimit - UsageGet(u, m))

\* Seeded fault: the quota counts as exceeded only above the limit.
IsQuotaExceededStrict(u, m) == UsageGet(u, m) > MonthlyLimit

\* UsageTracker.is_quota_exceeded.
IsQuotaExceeded(u, m) == GetRemaining(u, m) = 0

\* -------------------------------------------------------------- extraction
\* A text by its length and the number of its leading and trailing
\* whitespace characters; str.strip() drops these.
Strip(t) == [len |-> t.len - t.ws, ws |-> 0]

\* _extract_text_sync: raises ValueError when pdfplumber fails, else returns
\* the joined page texts stripped.
\* Seeded fault: the extractor raises when the document has no text.
ExtractTextSyncRaiseOnBlank(doc) ==
    IF ~doc.valid \/ doc.rawLen = doc.ws
    THEN [raised |-> TRUE, text |-> [len |-> 0, ws |-> 0]]
    ELSE [raised |-> FALSE, text |-> Strip([len |-> doc.rawLen, ws |-> doc.ws])]

ExtractTextSync(doc) ==
    IF ~doc.valid
    THEN [raised |-> TRUE, text |-> [len |-> 0, ws |-> 0]]
    ELSE [raised |-> FALSE, text |-> Strip([len |-> doc.rawLen, ws |-> doc.ws])]

\* Seeded fault: the test `not text.strip()` is missing.
IsBlankNever(t) == FALSE

\* `not text.strip()`.
IsBlank(t) == Strip(t).len = 0

\* ---------------------------------------------------------------- chunking
\* len([text[i:i+max_chunk_size] for i in range(0, len(text), max_chunk_size)]).
ChunkCount(n) == (n + MaxChunkSize - 1) \div MaxChunkSize

\* ----------------------------------------------------------- remote client
\* response.raise_for_status() lets 2xx pass.
IsSuccess(status) == status \in 200..299

\* The test on the decoded body: isinstance(result, list) and len(result) > 0
\* and "summary_text" in result[0]. Body shapes: "summary" is
\* [{"summary_text": text}], "object" a JSON object, "empty_list" is [],
\* "no_field" a list whose first element is an object without summary_text,
\* "number_first" a list whose first element is a number, on which the
\* operator in raises TypeError.
BodyCheck(body) ==
    IF body = "summary" THEN "ok"
    ELSE IF body = "number_first" THEN "type_error"
    ELSE "malformed"

\* The outcome of one remote call as the try/except around client.post
\* decides it in summarize_text_async: "ok", or the error raised.
CallOutcome(resp) ==
    IF resp.kind = "timeout" THEN "chunk_timeout"
    ELSE IF resp.kind = "transport" THEN "transport"
    ELSE IF resp.status = 429 THEN "rate_limit"
    ELSE IF resp.status = 503 THEN "unavailable"
    ELSE IF ~IsSuccess(resp.status) THEN "api_error"
    ELSE BodyCheck(resp.body)

\* The same in summarize_text_streaming.
CallOutcomeStreaming(resp) ==
    IF resp.kind = "timeout" THEN "chunk_timeout"
    ELSE IF resp.kind = "transport" THEN "transport"
    ELSE IF resp.status = 429 THEN "rate_limit"
    ELSE IF resp.status = 503 THEN "unavailable"
    ELSE IF ~IsSuccess(resp.status) THEN "api_error"
    ELSE BodyCheck(resp.body)

\* The chunk the message of the error names: "Timeout while processing chunk
\* {i+1}/{len(chunks)}" for the timeout of the call of chunk i of n; the
\* other messages name none.
MessageAt(o, i, n) == IF o = "chunk_timeout" THEN << i + 1, n >> ELSE << >>

\* What the error of an outcome carries besides its kind: the generic API
\* error has the status code and the text of the response in its message.
ErrorDetail(resp, o) ==
    IF o = "api_error" THEN << resp.status, resp.text >> ELSE << >>

\* --------------------------------------------------------- string helpers
IsSpace(c) == c \in {" ", "\n", "\t"}

RECURSIVE LStrip(_)
LStrip(s) == IF s # <<>> /\ IsSpace(Head(s)) THEN LStrip(Tail(s)) ELSE s

RECURSIVE RStrip(_)
RStrip(s) ==
    IF s # <<>> /\ IsSpace(s[Len(s)]) THEN RStrip(SubSeq(s, 1, Len(s) - 1)) ELSE s

\* str.strip() on a character sequence.
StripStr(s) == RStrip(LStrip(s))

\* " ".join(parts).
RECURSIVE JoinSpace(_)
JoinSpace(parts) ==
    IF parts = <<>> THEN <<>>
    ELSE IF Len(parts) = 1 THEN parts[1]
    ELSE parts[1] \o <<" ">> \o JoinSpace(Tail(parts))

\* ------------------------------------------------------------------- state
VARIABLES
    usage,          \* usage_tracker.usage: month key -> characters
    month,          \* the month time.strftime("%Y-%m") gives now
    hfToken,        \* whether os.getenv("HF_API_TOKEN") is set
    pc,             \* where each request's handler or generator stands
    mode,           \* "blocking" or "stream", "none" before arrival
    file,           \* the upload of each request
    text,           \* the text extraction returned to the handler
    extracted,      \* whether extraction returned a text to the handler
    idx,            \* the index of the chunk the request is at
    acc,            \* blocking: the string `summary`
    parts,          \* stream: the list `summary_parts`
    events,         \* stream: the events yielded so far
    result,         \* the HTTP outcome of the request
    callLog,        \* chunk indices for which client.post was issued
    extractCalls,   \* how often extract_text_from_pdf_bytes was awaited
    overdue,        \* whether 50 s have passed since the request was admitted
    usageAtStart,   \* history: usage when the first modelled request arrives
    responses,      \* history: what each client.post of the request ended in
    calc            \* the function under study and its inputs and output, in
                    \* the specifications of the pure functions

vars == << usage, month, hfToken, pc, mode, file, text, extracted, idx, acc,
           parts, events, result, callLog, extractCalls, overdue, usageAtStart,
           responses, calc >>

NoFile == [pdf |-> FALSE, size |-> 0, doc |-> [valid |-> FALSE, rawLen |-> 0, ws |-> 0]]
NoText == [len |-> 0, ws |-> 0]
NoResult ==
    [status |-> 0, detail |-> "none", cause |-> "none", summary |-> <<>>,
     at |-> <<>>]

Ev(kind, i, n, s, e) ==
    [event |-> kind, index |-> i, total |-> n, summary |-> s, error |-> e,
     at |-> <<>>]

\* The pipeline is not a pure-function study: calc stays empty in Spec.
NoCalc == [op |-> "none"]

\* No request has arrived.
NoRequests ==
    /\ pc = [r \in Req |-> "idle"]
    /\ mode = [r \in Req |-> "none"]
    /\ file = [r \in Req |-> NoFile]
    /\ text = [r \in Req |-> NoText]
    /\ extracted = [r \in Req |-> FALSE]
    /\ idx = [r \in Req |-> 0]
    /\ acc = [r \in Req |-> <<>>]
    /\ parts = [r \in Req |-> <<>>]
    /\ events = [r \in Req |-> <<>>]
    /\ result = [r \in Req |-> NoResult]
    /\ callLog = [r \in Req |-> <<>>]
    /\ extractCalls = [r \in Req |-> 0]
    /\ overdue = [r \in Req |-> FALSE]
    /\ responses = [r \in Req |-> <<>>]

Init ==
    /\ \E v \in InitialUsed :
          usage = IF v = 0 THEN << >> ELSE [k \in {1} |-> v]
    /\ usageAtStart = usage
    /\ month = 1
    /\ hfToken \in BOOLEAN
    /\ NoRequests
    /\ calc = NoCalc

\* The state of the pipeline in the specifications of the pure functions,
\* where no request is served.
PipelineIdle ==
    /\ usage = << >>
    /\ usageAtStart = usage
    /\ month = 1
    /\ hfToken = TRUE
    /\ NoRequests

pipelineVars ==
    << usage, month, hfToken, pc, mode, file, text, extracted, idx, acc,
       parts, events, result, callLog, extractCalls, overdue, usageAtStart,
       responses >>


\* ----------------------------------------------------------------- helpers
HttpError(status, detail, cause) ==
    [status |-> status, detail |-> detail, cause |-> cause, summary |-> <<>>,
     at |-> <<>>]

\* Seeded fault: the client's timeout is raised as asyncio.TimeoutError and
\* lands in the handler of the end-to-end deadline.
RemoteErrorAsDeadline(o, i, n) ==
    IF o = "chunk_timeout"
    THEN HttpError(504, "e2e_timeout", "none")
    ELSE HttpError(500, "failed_to_process", o)

\* The error of the call of chunk i of n reaches the endpoint's handler of
\* Exception: 500 "Failed to process document: " and the error's message.
RemoteError(o, i, n) ==
    [HttpError(500, "failed_to_process", o) EXCEPT !.at = MessageAt(o, i, n)]

\* The handler of request r ends with `res`.
Finish(r, res) ==
    /\ pc' = [pc EXCEPT ![r] = "done"]
    /\ result' = [result EXCEPT ![r] = res]

\* The generator of request r yields event e and suspends at `at`.
Yield(r, e, at) ==
    /\ events' = [events EXCEPT ![r] = Append(@, e)]
    /\ pc' = [pc EXCEPT ![r] = at]

\* Requests are numbered in their order of arrival.
Arrives(r) ==
    /\ pc[r] = "idle"
    /\ r > 1 => pc[r - 1] # "idle"

\* ------------------------------------------------------- boundary checks
\* summarize_endpoint: file type, then size, then monthly quota.
ValidateBlocking(f, u, m) ==
    IF ~f.pdf THEN "only_pdf"
    ELSE IF f.size > MaxFileSizeMB * 1024 * 1024 THEN "file_too_large"
    ELSE IF IsQuotaExceeded(u, m) THEN "quota_exceeded"
    ELSE "ok"

\* Seeded fault: the quota is checked before the file.
ValidateStreamQuotaFirst(f, u, m) ==
    IF IsQuotaExceeded(u, m) THEN "quota_exceeded"
    ELSE IF ~f.pdf THEN "only_pdf"
    ELSE IF f.size > MaxFileSizeMB * 1024 * 1024 THEN "file_too_large"
    ELSE "ok"

\* summarize_stream_endpoint: the same three checks.
ValidateStream(f, u, m) ==
    IF ~f.pdf THEN "only_pdf"
    ELSE IF f.size > MaxFileSizeMB * 1024 * 1024 THEN "file_too_large"
    ELSE IF IsQuotaExceeded(u, m) THEN "quota_exceeded"
    ELSE "ok"

\* The HTTPException of a boundary rejection.
Rejection(v) ==
    IF v = "quota_exceeded" THEN HttpError(429, v, "none") ELSE HttpError(400, v, "none")

\* ----------------------------------------------------------- blocking mode
\* POST /api/summarize up to its first await inside asyncio.timeout(50).
SummarizeEndpoint(r) ==
    /\ Arrives(r)
    /\ \E f \in Files :
        /\ mode' = [mode EXCEPT ![r] = "blocking"]
        /\ file' = [file EXCEPT ![r] = f]
        /\ LET v == ValidateBlocking(f, usage, month) IN
            IF v # "ok"
            THEN /\ Finish(r, Rejection(v))
                 /\ UNCHANGED extractCalls
            ELSE /\ pc' = [pc EXCEPT ![r] = "extracting"]
                 /\ extractCalls' = [extractCalls EXCEPT ![r] = @ + 1]
                 /\ UNCHANGED result
    /\ UNCHANGED << usage, month, hfToken, text, extracted, idx, acc, parts,
                    events, callLog, overdue, usageAtStart, responses, calc >>

\* Seeded fault: the usage is tracked only once the credential was found.
BlockingExtractReturnChargeLate(r) ==
    /\ pc[r] = "extracting"
    /\ mode[r] = "blocking"
    /\ LET x == ExtractTextSync(file[r].doc) IN
        IF x.raised
        THEN /\ Finish(r, HttpError(500, "failed_to_process", "extract_failed"))
             /\ UNCHANGED << usage, text, extracted, callLog >>
        ELSE /\ text' = [text EXCEPT ![r] = x.text]
             /\ extracted' = [extracted EXCEPT ![r] = TRUE]
             /\ IF IsBlank(x.text)
                THEN /\ Finish(r, HttpError(400, "no_text", "none"))
                     /\ UNCHANGED << usage, callLog >>
                ELSE /\ usage' = IF hfToken THEN Track(usage, month, x.text.len)
                               ELSE usage
                     /\ IF ~hfToken
                        THEN /\ Finish(r, HttpError(500, "config_token", "none"))
                             /\ UNCHANGED callLog
                        ELSE /\ pc' = [pc EXCEPT ![r] = "calling"]
                             /\ callLog' = [callLog EXCEPT ![r] = Append(@, 0)]
                             /\ UNCHANGED result
    /\ UNCHANGED << month, hfToken, mode, file, idx, acc, parts, events,
                    extractCalls, overdue, usageAtStart, responses, calc >>

\* extract_text_from_pdf_bytes returns to summarize_endpoint, which checks the
\* text, charges the quota and runs summarize_text_async up to its first
\* client.post.
BlockingExtractReturn(r) ==
    /\ pc[r] = "extracting"
    /\ mode[r] = "blocking"
    /\ LET x == ExtractTextSync(file[r].doc) IN
        IF x.raised
        THEN /\ Finish(r, HttpError(500, "failed_to_process", "extract_failed"))
             /\ UNCHANGED << usage, text, extracted, callLog >>
        ELSE /\ text' = [text EXCEPT ![r] = x.text]
             /\ extracted' = [extracted EXCEPT ![r] = TRUE]
             /\ IF IsBlank(x.text)
                THEN /\ Finish(r, HttpError(400, "no_text", "none"))
                     /\ UNCHANGED << usage, callLog >>
                ELSE /\ usage' = Track(usage, month, x.text.len)
                     /\ IF ~hfToken
                        THEN /\ Finish(r, HttpError(500, "config_token", "none"))
                             /\ UNCHANGED callLog
                        ELSE /\ pc' = [pc EXCEPT ![r] = "calling"]
                             /\ callLog' = [callLog EXCEPT ![r] = Append(@, 0)]
                             /\ UNCHANGED result
    /\ UNCHANGED << month, hfToken, mode, file, idx, acc, parts, events,
                    extractCalls, overdue, usageAtStart, responses, calc >>

\* Seeded fault: a failed call is posted once more before giving up.
BlockingRemoteReturnRetry(r) ==
    /\ pc[r] = "calling"
    /\ mode[r] = "blocking"
    /\ \E resp \in Responses(idx[r]) :
        /\ responses' = [responses EXCEPT ![r] = Append(@, resp)]
        /\ LET o == CallOutcome(resp)
               n == ChunkCount(text[r].len)
               s == acc[r] \o resp.text \o <<" ">>
           IN  IF o # "ok"
               THEN IF Len(callLog[r]) = idx[r] + 1
                    THEN /\ callLog' = [callLog EXCEPT ![r] = Append(@, idx[r])]
                         /\ UNCHANGED << acc, idx, pc, result >>
                    ELSE /\ Finish(r, RemoteError(o, idx[r], n))
                         /\ UNCHANGED << acc, idx, callLog >>
               ELSE /\ acc' = [acc EXCEPT ![r] = s]
                    /\ IF idx[r] + 1 < n
                       THEN /\ idx' = [idx EXCEPT ![r] = @ + 1]
                            /\ callLog' = [callLog EXCEPT ![r] = Append(@, idx[r] + 1)]
                            /\ UNCHANGED << pc, result >>
                       ELSE /\ Finish(r, [status |-> 200, detail |-> "ok",
                                          cause |-> "none", summary |-> StripStr(s),
                                          at |-> <<>>])
                            /\ UNCHANGED << idx, callLog >>
    /\ UNCHANGED << usage, month, hfToken, mode, file, text, extracted, parts,
                    events, extractCalls, overdue, usageAtStart, calc >>

\* Seeded fault: a failed call answers with the summary accumulated so far.
BlockingRemoteReturnBestEffort(r) ==
    /\ pc[r] = "calling"
    /\ mode[r] = "blocking"
    /\ \E resp \in Responses(idx[r]) :
        /\ responses' = [responses EXCEPT ![r] = Append(@, resp)]
        /\ LET o == CallOutcome(resp)
               n == ChunkCount(text[r].len)
               s == acc[r] \o resp.text \o <<" ">>
           IN  IF o # "ok"
               THEN /\ Finish(r, [status |-> 500, detail |-> "failed_to_process",
                                  cause |-> o, summary |-> StripStr(acc[r]),
                                  at |-> <<>>])
                    /\ UNCHANGED << acc, idx, callLog >>
               ELSE /\ acc' = [acc EXCEPT ![r] = s]
                    /\ IF idx[r] + 1 < n
                       THEN /\ idx' = [idx EXCEPT ![r] = @ + 1]
                            /\ callLog' = [callLog EXCEPT ![r] = Append(@, idx[r] + 1)]
                            /\ UNCHANGED << pc, result >>
                       ELSE /\ Finish(r, [status |-> 200, detail |-> "ok",
                                          cause |-> "none", summary |-> StripStr(s),
                                          at |-> <<>>])
                            /\ UNCHANGED << idx, callLog >>
    /\ UNCHANGED << usage, month, hfToken, mode, file, text, extracted, parts,
                    events, extractCalls, overdue, usageAtStart, calc >>

\* client.post of chunk idx[r] ends, in summarize_text_async: the summary is
\* accumulated and the next chunk posted, or the response built, or the
\* error propagates to the endpoint's handlers.
BlockingRemoteReturn(r) ==
    /\ pc[r] = "calling"
    /\ mode[r] = "blocking"
    /\ \E resp \in Responses(idx[r]) :
        /\ responses' = [responses EXCEPT ![r] = Append(@, resp)]
        /\ LET o == CallOutcome(resp)
               n == ChunkCount(text[r].len)
               s == acc[r] \o resp.text \o <<" ">>
           IN  IF o # "ok"
               THEN /\ Finish(r, RemoteError(o, idx[r], n))
                    /\ UNCHANGED << acc, idx, callLog >>
               ELSE /\ acc' = [acc EXCEPT ![r] = s]
                    /\ IF idx[r] + 1 < n
                       THEN /\ idx' = [idx EXCEPT ![r] = @ + 1]
                            /\ callLog' = [callLog EXCEPT ![r] = Append(@, idx[r] + 1)]
                            /\ UNCHANGED << pc, result >>
                       ELSE /\ Finish(r, [status |-> 200, detail |-> "ok",
                                          cause |-> "none", summary |-> StripStr(s),
                                          at |-> <<>>])
                            /\ UNCHANGED << idx, callLog >>
    /\ UNCHANGED << usage, month, hfToken, mode, file, text, extracted, parts,
                    events, extractCalls, overdue, usageAtStart, calc >>

\* asyncio.timeout(50) expires while the handler is suspended in an await:
\* the await is cancelled and the endpoint answers 504.
BlockingDeadline(r) ==
    /\ pc[r] \in {"extracting", "calling"}
    /\ mode[r] = "blocking"
    /\ overdue' = [overdue EXCEPT ![r] = TRUE]
    /\ Finish(r, HttpError(504, "e2e_timeout", "none"))
    /\ UNCHANGED << usage, month, hfToken, mode, file, text, extracted, idx, acc,
                    parts, events, callLog, extractCalls, usageAtStart,
                   responses, calc >>


\* -------------------------------------------------------- progressive mode
\* POST /api/summarize-stream: the checks, then EventSourceResponse over a
\* generator that has not started yet.
SummarizeStreamEndpoint(r) ==
    /\ Arrives(r)
    /\ \E f \in Files :
        /\ mode' = [mode EXCEPT ![r] = "stream"]
        /\ file' = [file EXCEPT ![r] = f]
        /\ LET v == ValidateStream(f, usage, month) IN
            IF v # "ok"
            THEN Finish(r, Rejection(v))
            ELSE /\ pc' = [pc EXCEPT ![r] = "created"]
                 /\ result' = [result EXCEPT ![r] =
                        [status |-> 200, detail |-> "event_stream",
                         cause |-> "none", summary |-> <<>>, at |-> <<>>]]
    /\ UNCHANGED << usage, month, hfToken, text, extracted, idx, acc, parts,
                    events, callLog, extractCalls, overdue, usageAtStart,
                   responses, calc >>

Suspended == {"y_started", "y_extracted", "y_chunk_start", "y_chunk_done",
              "y_formatting", "y_complete", "y_error"}

GenFrame == << usage, month, hfToken, mode, file, result, acc, overdue, usageAtStart >>

\* The message of the error event the generator's except branch yields.
ErrorEvent(cause) == Ev("error", 0, 0, <<>>, cause)

\* The error event for the error of the call of chunk i of n: "Error: " and
\* the error's message.
RemoteErrorEvent(o, i, n) == [ErrorEvent(o) EXCEPT !.at = MessageAt(o, i, n)]

\* First __anext__: the generator yields extraction_started.
GenStart(r) ==
    /\ pc[r] = "created"
    /\ Yield(r, Ev("extraction_started", 0, 0, <<>>, "none"), "y_started")
    /\ UNCHANGED << GenFrame, text, extracted, idx, parts, callLog, extractCalls,
                   responses, calc >>

\* Resumed after extraction_started: awaits extract_text_from_pdf_bytes.
GenBeginExtract(r) ==
    /\ pc[r] = "y_started"
    /\ pc' = [pc EXCEPT ![r] = "extracting"]
    /\ extractCalls' = [extractCalls EXCEPT ![r] = @ + 1]
    /\ UNCHANGED << GenFrame, text, extracted, idx, parts, events, callLog,
                   responses, calc >>

\* Extraction returns to the generator: error event (raised, or no text), or
\* extraction_complete.
GenExtractReturn(r) ==
    /\ pc[r] = "extracting"
    /\ mode[r] = "stream"
    /\ LET x == ExtractTextSync(file[r].doc) IN
        IF x.raised
        THEN /\ Yield(r, ErrorEvent("extract_failed"), "y_error")
             /\ UNCHANGED << text, extracted >>
        ELSE /\ text' = [text EXCEPT ![r] = x.text]
             /\ extracted' = [extracted EXCEPT ![r] = TRUE]
             /\ IF IsBlank(x.text)
                THEN Yield(r, Ev("error", 0, 0, <<>>, "no_text"), "y_error")
                ELSE Yield(r, Ev("extraction_complete", 0, 0, <<>>, "none"),
                           "y_extracted")
    /\ UNCHANGED << GenFrame, idx, parts, callLog, extractCalls,
                   responses, calc >>

\* Seeded fault: the credential is not read before the first chunk.
GenStartSummarizeNoTokenCheck(r) ==
    /\ pc[r] = "y_extracted"
    /\ Yield(r, Ev("chunk_processing", 0, ChunkCount(text[r].len), <<>>, "none"),
             "y_chunk_start")
    /\ UNCHANGED << GenFrame, text, extracted, idx, parts, callLog, extractCalls,
                   responses, calc >>

\* Seeded fault: the request for the first chunk is sent before
\* chunk_processing is handed to the consumer.
GenStartSummarizeEager(r) ==
    /\ pc[r] = "y_extracted"
    /\ IF ~hfToken
       THEN /\ Yield(r, ErrorEvent("config_token"), "y_error")
            /\ UNCHANGED callLog
       ELSE /\ Yield(r, Ev("chunk_processing", 0, ChunkCount(text[r].len), <<>>, "none"),
                     "y_chunk_start")
            /\ callLog' = [callLog EXCEPT ![r] = Append(@, 0)]
    /\ UNCHANGED << GenFrame, text, extracted, idx, parts, extractCalls,
                   responses, calc >>

\* Resumed after extraction_complete: summarize_text_streaming starts, reads
\* the credential and yields chunk_start for chunk 0, which the generator
\* turns into chunk_processing.
GenStartSummarize(r) ==
    /\ pc[r] = "y_extracted"
    /\ IF ~hfToken
       THEN Yield(r, ErrorEvent("config_token"), "y_error")
       ELSE Yield(r, Ev("chunk_processing", 0, ChunkCount(text[r].len), <<>>, "none"),
                  "y_chunk_start")
    /\ UNCHANGED << GenFrame, text, extracted, idx, parts, callLog, extractCalls,
                   responses, calc >>

\* Resumed after chunk_processing: client.post for chunk idx[r] is issued.
\* Seeded fault: the request for the next chunk is sent together with the
\* current one.
GenPostPrefetch(r) ==
    /\ pc[r] = "y_chunk_start"
    /\ pc' = [pc EXCEPT ![r] = "calling"]
    /\ callLog' = [callLog EXCEPT ![r] =
                       IF idx[r] + 1 < ChunkCount(text[r].len)
                       THEN @ \o << idx[r], idx[r] + 1 >>
                       ELSE Append(@, idx[r])]
    /\ UNCHANGED << GenFrame, text, extracted, idx, parts, events, extractCalls,
                   responses, calc >>

GenPost(r) ==
    /\ pc[r] = "y_chunk_start"
    /\ pc' = [pc EXCEPT ![r] = "calling"]
    /\ callLog' = [callLog EXCEPT ![r] = Append(@, idx[r])]
    /\ UNCHANGED << GenFrame, text, extracted, idx, parts, events, extractCalls,
                   responses, calc >>

\* client.post ends, in summarize_text_streaming: chunk_complete, or the
\* error reaches the generator's except branch, which yields an error event.
GenRemoteReturn(r) ==
    /\ pc[r] = "calling"
    /\ mode[r] = "stream"
    /\ \E resp \in Responses(idx[r]) :
        /\ responses' = [responses EXCEPT ![r] = Append(@, resp)]
        /\ LET o == CallOutcomeStreaming(resp)
               n == ChunkCount(text[r].len)
           IN  IF o # "ok"
               THEN /\ Yield(r, RemoteErrorEvent(o, idx[r], n), "y_error")
                    /\ UNCHANGED parts
               ELSE /\ parts' = [parts EXCEPT ![r] = Append(@, resp.text)]
                    /\ Yield(r, Ev("chunk_complete", idx[r], n, resp.text, "none"),
                             "y_chunk_done")
    /\ UNCHANGED << GenFrame, text, extracted, idx, callLog, extractCalls,
                   calc >>

\* Seeded fault: the formatting event is skipped.
GenNextChunkNoFormatting(r) ==
    /\ pc[r] = "y_chunk_done"
    /\ LET n == ChunkCount(text[r].len) IN
        IF idx[r] + 1 < n
        THEN /\ idx' = [idx EXCEPT ![r] = @ + 1]
             /\ Yield(r, Ev("chunk_processing", idx[r] + 1, n, <<>>, "none"),
                      "y_chunk_start")
        ELSE /\ Yield(r, Ev("complete", 0, 0, JoinSpace(parts[r]), "none"),
                      "y_complete")
             /\ UNCHANGED idx
    /\ UNCHANGED << GenFrame, text, extracted, parts, callLog, extractCalls,
                   responses, calc >>

\* Resumed after chunk_complete: chunk_processing of the next chunk, or,
\* after the last chunk, the formatting event.
GenNextChunk(r) ==
    /\ pc[r] = "y_chunk_done"
    /\ LET n == ChunkCount(text[r].len) IN
        IF idx[r] + 1 < n
        THEN /\ idx' = [idx EXCEPT ![r] = @ + 1]
             /\ Yield(r, Ev("chunk_processing", idx[r] + 1, n, <<>>, "none"),
                      "y_chunk_start")
        ELSE /\ Yield(r, Ev("formatting", 0, 0, <<>>, "none"), "y_formatting")
             /\ UNCHANGED idx
    /\ UNCHANGED << GenFrame, text, extracted, parts, callLog, extractCalls,
                   responses, calc >>

\* Resumed after formatting: the complete event with the joined summary.
GenComplete(r) ==
    /\ pc[r] = "y_formatting"
    /\ Yield(r, Ev("complete", 0, 0, JoinSpace(parts[r]), "none"), "y_complete")
    /\ UNCHANGED << GenFrame, text, extracted, idx, parts, callLog, extractCalls,
                   responses, calc >>

\* Seeded fault: the `return` after the no-text error event is missing.
GenFinishNoReturn(r) ==
    /\ pc[r] \in {"y_complete", "y_error"}
    /\ IF pc[r] = "y_error" /\ events[r][Len(events[r])].error = "no_text"
       THEN Yield(r, Ev("extraction_complete", 0, 0, <<>>, "none"), "y_extracted")
       ELSE /\ pc' = [pc EXCEPT ![r] = "done"]
            /\ UNCHANGED events
    /\ UNCHANGED << GenFrame, text, extracted, idx, parts, callLog, extractCalls,
                   responses, calc >>

\* Seeded fault: after an error event the generator waits instead of
\* returning.
GenFinishStall(r) ==
    /\ pc[r] \in {"y_complete", "y_error"}
    /\ pc' = [pc EXCEPT ![r] = IF pc[r] = "y_error" THEN "y_error" ELSE "done"]
    /\ UNCHANGED << GenFrame, text, extracted, idx, parts, events, callLog,
                    extractCalls, responses, calc >>

\* Resumed after complete or after an error event: the generator returns.
GenFinish(r) ==
    /\ pc[r] \in {"y_complete", "y_error"}
    /\ pc' = [pc EXCEPT ![r] = "done"]
    /\ UNCHANGED << GenFrame, text, extracted, idx, parts, events, callLog,
                    extractCalls, responses, calc >>

\* The client disconnects: the generator is cancelled where it stands
\* (CancelledError and GeneratorExit are not caught by `except Exception`).
ConsumerCancel(r) ==
    /\ mode[r] = "stream"
    /\ pc[r] \in Suspended \cup {"created", "extracting", "calling"}
    /\ pc' = [pc EXCEPT ![r] = "cancelled"]
    /\ UNCHANGED << GenFrame, text, extracted, idx, parts, events, callLog,
                    extractCalls, responses, calc >>

\* 50 s pass since a stream request was admitted; the stream endpoint and
\* its generator arm no timer.
StreamClockPasses(r) ==
    /\ mode[r] = "stream"
    /\ pc[r] \in Suspended \cup {"created", "extracting", "calling"}
    /\ ~overdue[r]
    /\ overdue' = [overdue EXCEPT ![r] = TRUE]
    /\ UNCHANGED << usage, month, hfToken, pc, mode, file, text, extracted, idx,
                    acc, parts, events, result, callLog, extractCalls, usageAtStart,
                   responses, calc >>

\* ------------------------------------------------------------- environment
\* The calendar month changes.
MonthRollover ==
    /\ month < MaxMonth
    /\ month' = month + 1
    /\ UNCHANGED << usage, hfToken, pc, mode, file, text, extracted, idx, acc,
                    parts, events, result, callLog, extractCalls, overdue,
                    usageAtStart, responses, calc >>

Next ==
    \/ \E r \in Req : SummarizeEndpoint(r)
    \/ \E r \in Req : BlockingExtractReturn(r)
    \/ \E r \in Req : BlockingRemoteReturn(r)
    \/ \E r \in Req : BlockingDeadline(r)
    \/ \E r \in Req : SummarizeStreamEndpoint(r)
    \/ \E r \in Req : GenStart(r)
    \/ \E r \in Req : GenBeginExtract(r)
    \/ \E r \in Req : GenExtractReturn(r)
    \/ \E r \in Req : GenStartSummarize(r)
    \/ \E r \in Req : GenPost(r)
    \/ \E r \in Req : GenRemoteReturn(r)
    \/ \E r \in Req : GenNextChunk(r)
    \/ \E r \in Req : GenComplete(r)
    \/ \E r \in Req : GenFinish(r)
    \/ \E r \in Req : ConsumerCancel(r)
    \/ \E r \in Req : StreamClockPasses(r)
    \/ MonthRollover

Spec == Init /\ [][Next]_vars

\* --------------------------------------------------------------- progress
\* The next step of the handler or generator of an admitted request r:
\* run_in_threadpool returns or raises, client.post returns or times out,
\* asyncio.timeout fires, or the consumer asks the generator for its next
\* event.
Advance(r) ==
    \/ BlockingExtractReturn(r)
    \/ BlockingRemoteReturn(r)
    \/ BlockingDeadline(r)
    \/ GenStart(r)
    \/ GenBeginExtract(r)
    \/ GenExtractReturn(r)
    \/ GenStartSummarize(r)
    \/ GenPost(r)
    \/ GenRemoteReturn(r)
    \/ GenNextChunk(r)
    \/ GenComplete(r)
    \/ GenFinish(r)

\* The steps of the program while every consumer of a stream keeps
\* consuming: no client disconnects.
LiveNext ==
    \/ \E r \in Req : SummarizeEndpoint(r)
    \/ \E r \in Req : SummarizeStreamEndpoint(r)
    \/ \E r \in Req : Advance(r)
    \/ \E r \in Req : StreamClockPasses(r)
    \/ MonthRollover

\* Every await of an admitted request ends and the event loop then runs the
\* handler; every suspended generator is resumed by its consumer.
LiveSpec == Init /\ [][LiveNext]_vars /\ \A r \in Req : WF_vars(Advance(r))


\* ==================================================================== claims
\* What the state shows of a request's progress.
NChunks(r) == ChunkCount(text[r].len)

Last(q) == q[Len(q)]

EventKey(e) == << e.event, e.index >>

RemoteFailures ==
    {"rate_limit", "unavailable", "api_error", "malformed", "chunk_timeout", "transport"}

\* The remote call of chunk k of request r failed, and the request ended on it.
RemoteFailedAt(r, k) ==
    /\ idx[r] = k
    /\ Len(callLog[r]) > 0
    /\ \/ /\ mode[r] = "blocking"
          /\ pc[r] = "done"
          /\ result[r].detail = "failed_to_process"
          /\ result[r].cause \in RemoteFailures
       \/ /\ mode[r] = "stream"
          /\ events[r] # <<>>
          /\ Last(events[r]).event = "error"
          /\ Last(events[r]).error \in RemoteFailures

\* The events of a stream of n chunks in which nothing fails.
ExpectedEvents(n) ==
    [j \in 1..(2 * n + 4) |->
        IF j = 1 THEN << "extraction_started", 0 >>
        ELSE IF j = 2 THEN << "extraction_complete", 0 >>
        ELSE IF j = 2 * n + 3 THEN << "formatting", 0 >>
        ELSE IF j = 2 * n + 4 THEN << "complete", 0 >>
        ELSE IF j % 2 = 1 THEN << "chunk_processing", (j - 3) \div 2 >>
        ELSE << "chunk_complete", (j - 4) \div 2 >>]

IsPrefixOf(p, q) ==
    /\ Len(p) <= Len(q)
    /\ \A j \in 1..Len(p) : p[j] = q[j]

EventKeys(r) == [j \in 1..Len(events[r]) |-> EventKey(events[r][j])]

\* C1: in progressive mode, a request whose extraction and all n chunk calls
\* succeed emits exactly extraction_started, extraction_complete, then
\* chunk_processing(i), chunk_complete(i) for i = 0..n-1 in index order, then
\* formatting, then complete (at every moment the events so far are a prefix
\* of that sequence, and the finished stream is all of it); and in every
\* stream an error event is the last event.
C1_EventOrder ==
    \A r \in Req :
        mode[r] = "stream" =>
            /\ \A j \in 1..Len(events[r]) :
                   events[r][j].event = "error" => j = Len(events[r])
            /\ (extracted[r] /\ ~IsBlank(text[r]) /\ Len(parts[r]) = NChunks(r)) =>
                   /\ IsPrefixOf(EventKeys(r), ExpectedEvents(NChunks(r)))
                   /\ Len(events[r]) >= 2 * NChunks(r) + 2
                   /\ pc[r] = "done" => EventKeys(r) = ExpectedEvents(NChunks(r))

\* A finished stream of three chunks, all summarized.
C1_Witness ==
    \E r \in Req :
        /\ mode[r] = "stream"
        /\ pc[r] = "done"
        /\ NChunks(r) = 3
        /\ Len(parts[r]) = 3
        /\ Len(events[r]) = 10

\* C2 as claimed: when the remote call of chunk k > 0 fails, the summaries of
\* chunks 0..k-1 reach the caller in no response and in no event.
C2_NoPartialDelivered ==
    \A r \in Req : \A k \in 1..3 :
        RemoteFailedAt(r, k) =>
            /\ result[r].summary = <<>>
            /\ \A j \in 1..Len(events[r]) :
                   events[r][j].event \notin {"chunk_complete", "complete"}

\* C2 amended: when the remote call of chunk k > 0 fails, no final result is
\* delivered (no summary in the response, no formatting and no complete
\* event). In blocking mode nothing of the k summaries obtained reaches the
\* caller. In progressive mode each of them was delivered by the
\* chunk_complete event of its chunk, before the error event, and nowhere
\* else.
C2_NoFinalResultOnFailure ==
    \A r \in Req : \A k \in 1..3 :
        RemoteFailedAt(r, k) =>
            /\ result[r].summary = <<>>
            /\ \A j \in 1..Len(events[r]) :
                   events[r][j].event \notin {"formatting", "complete"}
            /\ mode[r] = "blocking" => events[r] = <<>> /\ result[r].status = 500
            /\ mode[r] = "stream" =>
                   /\ Len(parts[r]) = k
                   /\ Len(events[r]) = 2 * k + 4
                   /\ \A i \in 0..(k - 1) :
                          /\ events[r][2 * i + 4].event = "chunk_complete"
                          /\ events[r][2 * i + 4].index = i
                          /\ events[r][2 * i + 4].summary = parts[r][i + 1]
                   /\ \A j \in 1..Len(events[r]) :
                          events[r][j].summary # <<>> =>
                              events[r][j].event = "chunk_complete"

\* Both modes, each with a failure on a chunk after the first.
C2_Witness ==
    \E r1, r2 \in Req :
        /\ mode[r1] = "blocking"
        /\ mode[r2] = "stream"
        /\ pc[r2] = "done"
        /\ \E k \in 1..2 : RemoteFailedAt(r1, k)
        /\ RemoteFailedAt(r2, 2)

\* C3: a failed remote call aborts the pipeline: chunks are posted once each
\* in index order (no call is repeated), and once the call of chunk k has
\* failed the calls issued are those of chunks 0..k, in every later state.
C3_FailFast ==
    \A r \in Req :
        /\ \A j \in 1..Len(callLog[r]) : callLog[r][j] = j - 1
        /\ \A k \in 0..2 :
               RemoteFailedAt(r, k) =>
                   /\ Len(callLog[r]) = k + 1
                   /\ pc[r] \in {"done", "y_error", "cancelled"}

\* Both modes, each failed on the first of three chunks.
C3_Witness ==
    \E r1, r2 \in Req :
        /\ mode[r1] = "blocking"
        /\ mode[r2] = "stream"
        /\ NChunks(r1) = 3
        /\ NChunks(r2) = 3
        /\ RemoteFailedAt(r1, 0)
        /\ RemoteFailedAt(r2, 0)
        /\ pc[r2] = "done"


\* The step in which extraction hands request r a text that is not blank.
ExtractionSucceeds(r) == ~extracted[r] /\ extracted'[r] /\ ~IsBlank(text'[r])

\* C4: in either operation, a successful extraction of a non-blank text of
\* n characters raises the counter of the current month key by exactly n.
C4_ChargedOnExtraction ==
    [][\A r \in Req :
          ExtractionSucceeds(r) =>
              UsageGet(usage', month) = UsageGet(usage, month) + text'[r].len]_vars

\* C5: in both modes a request that is still running when its 50 s deadline
\* passes ends with the end-to-end timeout error.
C5_DeadlineAborts ==
    \A r \in Req :
        (overdue[r] /\ pc[r] = "done") =>
            \/ result[r].detail = "e2e_timeout"
            \/ /\ events[r] # <<>>
               /\ Last(events[r]).event = "error"
               /\ Last(events[r]).error = "e2e_timeout"

\* The step in which the endpoint of request r reaches its quota check.
QuotaChecked(r) ==
    /\ pc[r] = "idle"
    /\ pc'[r] # "idle"
    /\ file'[r].pdf
    /\ file'[r].size <= MaxFileSizeMB * 1024 * 1024

\* C6: a request that reaches the quota check is rejected with the
\* quota-exceeded error if and only if the count of the current month key is
\* then at least the monthly limit; a request so rejected never starts
\* extraction, issues no remote call and emits no event.
C6_QuotaGate ==
    /\ [][\A r \in Req :
             QuotaChecked(r) =>
                 /\ (result'[r].detail = "quota_exceeded")
                        <=> (UsageGet(usage, month) >= MonthlyLimit)
                 /\ result'[r].detail = "quota_exceeded" =>
                        result'[r].status = 429 /\ pc'[r] = "done"]_vars
    /\ [](\A r \in Req :
             result[r].detail = "quota_exceeded" =>
                 /\ extractCalls[r] = 0
                 /\ ~extracted[r]
                 /\ callLog[r] = <<>>
                 /\ events[r] = <<>>)

\* A request rejected with the counter exactly at the limit, next to one
\* that was admitted earlier.
C6_Witness ==
    \E r1, r2 \in Req :
        /\ result[r2].detail = "quota_exceeded"
        /\ UsageGet(usage, month) = MonthlyLimit
        /\ extracted[r1]
        /\ mode[r1] = "blocking"

\* C7: the counter changes only in a step in which an extraction succeeds
\* with a non-blank text, and then only at the current month key; no other
\* step (a rejection for type, size or quota, a failed or blank extraction,
\* the reads of the quota check) changes any key or adds one.
C7_QuotaFrame ==
    [][usage' # usage =>
          /\ \E r \in Req : ExtractionSucceeds(r)
          /\ DOMAIN usage' = DOMAIN usage \cup {month}
          /\ \A m \in DOMAIN usage : m # month => usage'[m] = usage[m]]_vars

\* Month 2 was charged by a blocking request while month 1 kept its count,
\* next to a request rejected for its size.
C7_Witness ==
    \E r1, r2 \in Req :
        /\ result[r1].detail = "file_too_large"
        /\ mode[r2] = "blocking"
        /\ extracted[r2]
        /\ ~IsBlank(text[r2])
        /\ month = 2
        /\ UsageGet(usage, 2) = text[r2].len
        /\ UsageGet(usage, 1) = 29500

RECURSIVE SumCharged(_)
SumCharged(S) ==
    IF S = {} THEN 0
    ELSE LET r == CHOOSE x \in S : TRUE IN
         (IF extracted[r] /\ ~IsBlank(text[r]) THEN text[r].len ELSE 0)
             + SumCharged(S \ {r})

RECURSIVE TotalUsage(_, _)
TotalUsage(u, K) ==
    IF K = {} THEN 0
    ELSE LET k == CHOOSE x \in K : TRUE IN u[k] + TotalUsage(u, K \ {k})

\* C8: once all requests have finished, the counter holds its initial value
\* plus the text lengths of all requests whose extraction succeeded.
C8_NoLostIncrement ==
    (\A r \in Req : pc[r] = "done") =>
        TotalUsage(usage, DOMAIN usage) =
            TotalUsage(usageAtStart, DOMAIN usageAtStart) + SumCharged(Req)

\* C9: without the credential no remote call is made: the blocking request
\* ends with the configuration error as soon as extraction has succeeded, and
\* the stream ends extraction_started, extraction_complete, error, without a
\* chunk_processing event.
C9_NoCallWithoutToken ==
    \A r \in Req :
        ~hfToken =>
            /\ callLog[r] = <<>>
            /\ \A j \in 1..Len(events[r]) : events[r][j].event # "chunk_processing"
            /\ (mode[r] = "blocking" /\ extracted[r] /\ ~IsBlank(text[r])) =>
                   /\ pc[r] = "done"
                   /\ result[r].status = 500
                   /\ result[r].detail = "config_token"
            /\ (mode[r] = "stream" /\ pc[r] = "done" /\ extracted[r]
                    /\ ~IsBlank(text[r])) =>
                   /\ Len(events[r]) = 3
                   /\ events[r][1].event = "extraction_started"
                   /\ events[r][2].event = "extraction_complete"
                   /\ events[r][3].event = "error"
                   /\ events[r][3].error = "config_token"

\* Both modes ended on the missing credential.
C9_Witness ==
    \E r1, r2 \in Req :
        /\ ~hfToken
        /\ mode[r1] = "blocking"
        /\ result[r1].detail = "config_token"
        /\ mode[r2] = "stream"
        /\ pc[r2] = "done"
        /\ Len(events[r2]) = 3
        /\ Last(events[r2]).error = "config_token"

IsTerminal(e) == e.event \in {"complete", "error"}

\* What fails in a stream that ran to its end: extraction raised, the text
\* is blank, the credential is missing, or a remote call failed.
StreamFailure(r) ==
    \/ ~extracted[r]
    \/ IsBlank(text[r])
    \/ ~hfToken
    \/ Len(callLog[r]) > Len(parts[r])

\* C10: in a stream a terminal event (complete or error) is the last event,
\* so there is at most one; a stream that ran to its end has exactly one,
\* which is error if anything failed and complete otherwise.
C10_SingleTerminalEvent ==
    \A r \in Req :
        mode[r] = "stream" =>
            /\ \A j \in 1..Len(events[r]) :
                   IsTerminal(events[r][j]) => j = Len(events[r])
            /\ (pc[r] \in {"y_error", "y_complete", "done"} /\ result[r].status = 200) =>
                   /\ events[r] # <<>>
                   /\ IsTerminal(Last(events[r]))
                   /\ StreamFailure(r) <=> Last(events[r]).event = "error"

\* A stream ended by an error event after two chunks were summarized.
C10_Witness ==
    \E r \in Req :
        /\ mode[r] = "stream"
        /\ pc[r] = "done"
        /\ Len(parts[r]) = 2
        /\ Len(events[r]) = 8
        /\ Last(events[r]).event = "error"

\* ---------------------------------------------------------------------
\* The full summary of the two front ends.

\* The summary_text values the remote service returned to request r, in
\* the order of the calls.
SummaryTexts(r) == [i \in 1..Len(responses[r]) |-> responses[r][i].text]

BlockingSucceeded(r) ==
    mode[r] = "blocking" /\ pc[r] = "done" /\ result[r].status = 200

StreamCompleted(r) ==
    /\ mode[r] = "stream"
    /\ events[r] # <<>>
    /\ \E i \in 1..Len(events[r]) : events[r][i].event = "complete"

CompleteEvent(r) ==
    events[r][CHOOSE i \in 1..Len(events[r]) : events[r][i].event = "complete"]

\* C11: a blocking request and a progressive request over the same document
\* and the same chunk summaries end with the same summary, whatever the
\* chunk summaries are (empty, or beginning or ending with whitespace).
C11_SameFinalResult ==
    \A b, p \in Req :
        (/\ BlockingSucceeded(b)
         /\ StreamCompleted(p)
         /\ file[b].doc = file[p].doc
         /\ SummaryTexts(b) = SummaryTexts(p))
        => result[b].summary = CompleteEvent(p).summary

\* C12: in both modes the full summary is exactly the chunk summaries joined
\* with single spaces in chunk order, nothing added and nothing removed.
C12_JoinedWithSingleSpaces ==
    \A r \in Req :
        /\ BlockingSucceeded(r) => result[r].summary = JoinSpace(SummaryTexts(r))
        /\ StreamCompleted(r) => CompleteEvent(r).summary = JoinSpace(SummaryTexts(r))

\* ---------------------------------------------------------------------
\* One remote call per chunk, one at a time.

\* Calls of request r that were issued and have not ended.
Outstanding(r) == Len(callLog[r]) - Len(responses[r])

\* C13: the calls of a request are for chunks 0, 1, 2, ... in this order;
\* the call for the next chunk is issued only after the previous call was
\* answered successfully; at most one call of a request is outstanding; a
\* request that succeeded made as many calls as its text has chunks.
C13_OneCallPerChunkInOrder ==
    \A r \in Req :
        /\ \A j \in 1..Len(callLog[r]) : callLog[r][j] = j - 1
        /\ \A j \in 2..Len(callLog[r]) :
              /\ j - 1 <= Len(responses[r])
              /\ CallOutcome(responses[r][j - 1]) = "ok"
        /\ Outstanding(r) \in {0, 1}
        /\ (BlockingSucceeded(r) \/ StreamCompleted(r))
              => /\ Len(callLog[r]) = NChunks(r)
                 /\ Outstanding(r) = 0

\* One request has finished a three-chunk text with three calls while the
\* second call of another request is outstanding.
C13_Witness ==
    /\ \E r \in Req :
          /\ BlockingSucceeded(r) \/ StreamCompleted(r)
          /\ NChunks(r) = 3
          /\ callLog[r] = << 0, 1, 2 >>
    /\ \E r \in Req : Outstanding(r) = 1 /\ pc[r] = "calling" /\ Len(callLog[r]) = 2

\* ---------------------------------------------------------------------
\* The chunker: [text[i : i + max_chunk_size]
\*               for i in range(0, len(text), max_chunk_size)]

MaxTextLen == 4
MaxSize == 3

Alphabet == {"a", "b"}
Texts == UNION { [1..n -> Alphabet] : n \in 0..MaxTextLen }
Sizes == 1..MaxSize

\* range(0, n, step) as a sequence: 0, step, 2*step, ... below n.
Range(n, step) ==
    [k \in 1..Cardinality({i \in 0..(n - 1) : i % step = 0}) |-> (k - 1) * step]

\* The slice t[i:j] of Python for 0 <= i <= j: positions i..j-1 counted from
\* 0, cut at the end of t.
Slice(t, i, j) == SubSeq(t, i + 1, IF j < Len(t) THEN j ELSE Len(t))

\* Seeded fault: only full chunks are produced, range(0, len(text) - size + 1,
\* size).
ChunksDropTail(t, size) ==
    LET starts == Range(Len(t) - size + 1, size)
    IN  [k \in 1..Len(starts) |-> Slice(t, starts[k], starts[k] + size)]

Chunks(t, size) ==
    LET starts == Range(Len(t), size)
    IN  [k \in 1..Len(starts) |-> Slice(t, starts[k], starts[k] + size)]

ChunkerInit ==
    /\ PipelineIdle
    /\ \E t \in Texts, size \in Sizes :
          calc = [op |-> "chunk", text |-> t, size |-> size,
                  done |-> FALSE, chunks |-> <<>>]

ChunkText ==
    /\ calc.op = "chunk"
    /\ ~calc.done
    /\ calc' = [calc EXCEPT !.done = TRUE,
                            !.chunks = Chunks(calc.text, calc.size)]
    /\ UNCHANGED pipelineVars

ChunkerNext == ChunkText

SpecChunker == ChunkerInit /\ [][ChunkerNext]_vars

RECURSIVE Concat(_)
Concat(q) == IF q = <<>> THEN <<>> ELSE Head(q) \o Concat(Tail(q))

RECURSIVE SumLen(_, _)
SumLen(q, k) == IF k = 0 THEN 0 ELSE Len(q[k]) + SumLen(q, k - 1)

\* C14: the chunks of text T for size S are consecutive pieces of T taken in
\* order, none empty and none longer than S; their concatenation is T; there
\* are ceil(len(T)/S) of them, none for the empty text.
C14_ChunkerPartition ==
    (calc.op = "chunk" /\ calc.done) =>
        LET T == calc.text
            S == calc.size
            c == calc.chunks
        IN  /\ Len(c) = (Len(T) + S - 1) \div S
            /\ (T = <<>>) => (c = <<>>)
            /\ \A k \in 1..Len(c) :
                  /\ Len(c[k]) >= 1
                  /\ Len(c[k]) <= S
                  /\ c[k] = SubSeq(T, SumLen(c, k - 1) + 1, SumLen(c, k))
            /\ Concat(c) = T

\* A text of four characters was cut for size 3: a full chunk and a last,
\* shorter one.
C14_Witness ==
    /\ calc.op = "chunk"
    /\ calc.done
    /\ calc.size = 3
    /\ calc.text = << "a", "b", "b", "a" >>
    /\ calc.chunks = << << "a", "b", "b" >>, << "a" >> >>

\* ---------------------------------------------------------------------
\* The order of the boundary checks.

Rejected(r) ==
    /\ pc[r] = "done"
    /\ result[r].detail \in {"only_pdf", "file_too_large", "quota_exceeded"}

TooLarge(f) == f.size > MaxFileSizeMB * 1024 * 1024

\* C15: on arrival, in both operations, the file type is checked first, the
\* size second, the monthly quota third, and the first check that fails is
\* the one reported; a rejected request has had no extraction attempt, no
\* remote call and no event.
C15_BoundaryOrder ==
    /\ [][\A r \in Req :
            (pc[r] = "idle" /\ pc'[r] # "idle") =>
                LET f == file'[r]
                    d == result'[r].detail
                    c == result'[r].status
                IN  IF ~f.pdf THEN pc'[r] = "done" /\ d = "only_pdf" /\ c = 400
                    ELSE IF TooLarge(f)
                    THEN pc'[r] = "done" /\ d = "file_too_large" /\ c = 400
                    ELSE IF UsageGet(usage, month) >= MonthlyLimit
                    THEN pc'[r] = "done" /\ d = "quota_exceeded" /\ c = 429
                    ELSE pc'[r] \in {"extracting", "created"}]_vars
    /\ [](\A r \in Req :
            Rejected(r) => /\ extractCalls[r] = 0
                           /\ ~extracted[r]
                           /\ callLog[r] = <<>>
                           /\ events[r] = <<>>)

\* The quota of the month is used up and a request whose file is neither a
\* PDF nor within the size cap was rejected for its type.
C15_Witness ==
    /\ UsageGet(usage, month) >= MonthlyLimit
    /\ \E r \in Req :
          /\ r > 1
          /\ Rejected(r)
          /\ ~file[r].pdf
          /\ TooLarge(file[r])
          /\ result[r].detail = "only_pdf"
          /\ extractCalls[r] = 0

\* ---------------------------------------------------------------------
\* One remote call: what each client makes of every way client.post can end.

BodyShapes == {"summary", "object", "empty_list", "no_field", "number_first"}

ErrorStatuses == {400, 401, 404, 429, 500, 502, 503}

CallEndings ==
    { [kind |-> "response", status |-> c, body |-> "summary", text |-> s] :
          c \in {200, 201}, s \in {<<>>, <<"A">>, <<" ", "A">>} }
    \cup { [kind |-> "response", status |-> c, body |-> b, text |-> <<>>] :
          c \in {200, 201}, b \in BodyShapes \ {"summary"} }
    \cup { [kind |-> "response", status |-> c, body |-> "object", text |-> t] :
          c \in ErrorStatuses, t \in {<<>>, <<"e">>} }
    \cup { [kind |-> "timeout", status |-> 0, body |-> "none", text |-> <<>>],
           [kind |-> "transport", status |-> 0, body |-> "none", text |-> <<>>] }

RemoteCallInit ==
    /\ PipelineIdle
    /\ \E client \in {"async", "streaming"}, resp \in CallEndings :
          calc = [op |-> "call", client |-> client, resp |-> resp,
                  done |-> FALSE, outcome |-> "none", detail |-> <<>>,
                  summary |-> <<>>]

\* One pass of the loop body of summarize_text_async after client.post.
AsyncCallEnds ==
    /\ calc.op = "call"
    /\ calc.client = "async"
    /\ ~calc.done
    /\ LET o == CallOutcome(calc.resp) IN
          calc' = [calc EXCEPT !.done = TRUE,
                               !.outcome = o,
                               !.detail = ErrorDetail(calc.resp, o),
                               !.summary = IF o = "ok" THEN calc.resp.text
                                           ELSE <<>>]
    /\ UNCHANGED pipelineVars

\* One pass of the loop body of summarize_text_streaming after client.post.
StreamingCallEnds ==
    /\ calc.op = "call"
    /\ calc.client = "streaming"
    /\ ~calc.done
    /\ LET o == CallOutcomeStreaming(calc.resp) IN
          calc' = [calc EXCEPT !.done = TRUE,
                               !.outcome = o,
                               !.detail = ErrorDetail(calc.resp, o),
                               !.summary = IF o = "ok" THEN calc.resp.text
                                           ELSE <<>>]
    /\ UNCHANGED pipelineVars

RemoteCallNext == AsyncCallEnds \/ StreamingCallEnds

SpecRemoteCall == RemoteCallInit /\ [][RemoteCallNext]_vars

\* C16: in both clients a response of status 429 gives the rate-limit error,
\* 503 the unavailable error, any other non-2xx status the generic API error
\* with the status code and the body, a 2xx response whose body is not a
\* non-empty list whose first element has summary_text the malformed-response
\* error, and a 2xx body [{summary_text: X}] the chunk summary X.
C16_OutcomeTable ==
    (calc.op = "call" /\ calc.done /\ calc.resp.kind = "response") =>
        LET resp == calc.resp IN
            /\ resp.status = 429 => calc.outcome = "rate_limit"
            /\ resp.status = 503 => calc.outcome = "unavailable"
            /\ (~IsSuccess(resp.status) /\ resp.status \notin {429, 503})
                  => /\ calc.outcome = "api_error"
                     /\ calc.detail = << resp.status, resp.text >>
            /\ (IsSuccess(resp.status) /\ resp.body # "summary")
                  => calc.outcome = "malformed"
            /\ (IsSuccess(resp.status) /\ resp.body = "summary")
                  => calc.outcome = "ok" /\ calc.summary = resp.text

\* ---------------------------------------------------------------------
\* The timeout of one call and the end-to-end deadline.

\* The last call of request r ended in the client's own timeout.
CallTimedOut(r) ==
    responses[r] # <<>> /\ Last(responses[r]).kind = "timeout"

\* C17: when the call of chunk i times out, the error names chunk i+1 of n,
\* in both modes; in blocking mode it is the 500 "failed to process" answer,
\* while the end-to-end deadline gives 504 with its own message, and neither
\* is ever reported as the other.
C17_ChunkTimeoutDistinct ==
    \A r \in Req :
        LET i == Len(responses[r]) - 1 IN
        /\ (CallTimedOut(r) /\ mode[r] = "blocking")
              => /\ pc[r] = "done"
                 /\ result[r].status = 500
                 /\ result[r].detail = "failed_to_process"
                 /\ result[r].cause = "chunk_timeout"
                 /\ result[r].at = << i + 1, NChunks(r) >>
                 /\ ~overdue[r]
        /\ (CallTimedOut(r) /\ mode[r] = "stream")
              => /\ Last(events[r]).event = "error"
                 /\ Last(events[r]).error = "chunk_timeout"
                 /\ Last(events[r]).at = << i + 1, NChunks(r) >>
        /\ (mode[r] = "blocking" /\ overdue[r])
              => /\ result[r].status = 504
                 /\ result[r].detail = "e2e_timeout"
                 /\ result[r].at = << >>
                 /\ ~CallTimedOut(r)
        /\ result[r].status = 504 => (mode[r] = "blocking" /\ overdue[r])
        /\ result[r].cause = "chunk_timeout" => CallTimedOut(r)

\* One blocking request was answered 500 for the timeout of the call of
\* chunk 2 of 3, another 504 for the deadline passing during a call.
C17_Witness ==
    /\ \E r \in Req :
          /\ mode[r] = "blocking"
          /\ CallTimedOut(r)
          /\ result[r].status = 500
          /\ result[r].at = << 2, 3 >>
    /\ \E r \in Req :
          /\ mode[r] = "blocking"
          /\ overdue[r]
          /\ result[r].status = 504
          /\ Outstanding(r) = 1

\* ---------------------------------------------------------------------
\* No text found and failed extraction.

\* The document of request r extracts to whitespace only.
AllWhitespace(r) == file[r].doc.valid /\ file[r].doc.rawLen = file[r].doc.ws

\* The extraction of the document of request r raises.
Unreadable(r) == ~file[r].doc.valid

\* The extraction of blocking request r has returned to the handler.
BlockingExtractionOver(r) ==
    mode[r] = "blocking" /\ pc[r] = "done" /\ extractCalls[r] > 0 /\ ~overdue[r]

\* The generator of stream r has gone past its extraction.
StreamExtractionOver(r) == mode[r] = "stream" /\ Len(events[r]) >= 2

\* C18: in both modes a document whose text is only whitespace is reported
\* as no text found, a document whose extraction raises as a failed
\* extraction, the two reports differ, and in both cases the request ends
\* there, without a remote call.
C18_NoTextVsExtractFailure ==
    \A r \in Req :
        /\ (BlockingExtractionOver(r) /\ AllWhitespace(r))
              => /\ result[r].status = 400
                 /\ result[r].detail = "no_text"
        /\ (BlockingExtractionOver(r) /\ Unreadable(r))
              => /\ result[r].status = 500
                 /\ result[r].detail = "failed_to_process"
                 /\ result[r].cause = "extract_failed"
        /\ (StreamExtractionOver(r) /\ AllWhitespace(r))
              => /\ Len(events[r]) = 2
                 /\ events[r][2].event = "error"
                 /\ events[r][2].error = "no_text"
        /\ (StreamExtractionOver(r) /\ Unreadable(r))
              => /\ Len(events[r]) = 2
                 /\ events[r][2].event = "error"
                 /\ events[r][2].error = "extract_failed"
        /\ (mode[r] # "none" /\ (AllWhitespace(r) \/ Unreadable(r)))
              => /\ callLog[r] = <<>>
                 /\ responses[r] = <<>>
                 /\ result[r].summary = <<>>

\* A blocking request ended with no text found and a stream with a failed
\* extraction.
C18_Witness ==
    /\ \E r \in Req :
          /\ BlockingExtractionOver(r)
          /\ AllWhitespace(r)
          /\ result[r].detail = "no_text"
    /\ \E r \in Req :
          /\ StreamExtractionOver(r)
          /\ Unreadable(r)
          /\ pc[r] = "done"
          /\ Last(events[r]).error = "extract_failed"

\* ---------------------------------------------------------------------
\* The counters only grow.

\* C19: no step of any request, in either mode, and no change of month
\* lowers the counter stored for a month key or removes the key.
C19_UsageNeverDecreases ==
    [][\A k \in Months \cup DOMAIN usage :
          /\ k \in DOMAIN usage => k \in DOMAIN usage'
          /\ UsageGet(usage', k) >= UsageGet(usage, k)]_vars

\* The counter of month 1 has been raised beyond the limit by an accepted
\* request, and a later request was rejected for the quota.
C19_Witness ==
    /\ UsageGet(usageAtStart, 1) = 29500
    /\ UsageGet(usage, 1) = 29500 + 2400
    /\ UsageGet(usage, 2) = 0
    /\ \E r \in Req : result[r].detail = "quota_exceeded"

\* ---------------------------------------------------------------------
\* The request sent for each chunk.

MaxChunks == 3

LengthOptions == {"Short", "Medium", "Long"}
ToneOptions == {"Neutral", "Professional", "Casual"}

LENGTH_SETTINGS ==
    [l \in LengthOptions |->
        IF l = "Short" THEN [max_len |-> 60, min_len |-> 30]
        ELSE IF l = "Medium" THEN [max_len |-> 120, min_len |-> 50]
        ELSE [max_len |-> 200, min_len |-> 80]]

TONE_INSTRUCTIONS ==
    [t \in ToneOptions |->
        IF t = "Neutral"
        THEN "Summarize the following content clearly and concisely:"
        ELSE IF t = "Professional"
        THEN "Write a formal and professional executive summary of the following content:"
        ELSE "Explain the following content in a friendly and easy-to-understand tone:"]

\* The text of the k-th chunk of the document under study.
ChunkOf(k) ==
    IF k = 1 THEN "alpha beta" ELSE IF k = 2 THEN " gamma." ELSE "delta "

\* Seeded fault: the instruction and the chunk are joined without the space.
BuildPromptNoSpace(instruction, chunk) == instruction \o chunk

\* prompt = f"{instruction} {chunk}"
BuildPrompt(instruction, chunk) == instruction \o " " \o chunk

\* The JSON payload of one request.
Payload(instruction, settings, chunk) ==
    [inputs |-> BuildPrompt(instruction, chunk),
     max_length |-> settings.max_len,
     min_length |-> settings.min_len,
     do_sample |-> FALSE]

PayloadInit ==
    /\ PipelineIdle
    /\ \E client \in {"async", "streaming"}, l \in LengthOptions,
          t \in ToneOptions, n \in 1..MaxChunks :
          calc = [op |-> "payload", client |-> client, length |-> l,
                  tone |-> t, chunks |-> [k \in 1..n |-> ChunkOf(k)],
                  sent |-> <<>>]

\* summarize_text_async builds the payload of the next chunk and posts it.
AsyncSendChunk ==
    /\ calc.op = "payload"
    /\ calc.client = "async"
    /\ Len(calc.sent) < Len(calc.chunks)
    /\ LET settings == LENGTH_SETTINGS[calc.length]
           instruction == TONE_INSTRUCTIONS[calc.tone]
           chunk == calc.chunks[Len(calc.sent) + 1]
       IN  calc' = [calc EXCEPT
                       !.sent = Append(@, Payload(instruction, settings, chunk))]
    /\ UNCHANGED pipelineVars

\* summarize_text_streaming does the same.
StreamingSendChunk ==
    /\ calc.op = "payload"
    /\ calc.client = "streaming"
    /\ Len(calc.sent) < Len(calc.chunks)
    /\ LET settings == LENGTH_SETTINGS[calc.length]
           instruction == TONE_INSTRUCTIONS[calc.tone]
           chunk == calc.chunks[Len(calc.sent) + 1]
       IN  calc' = [calc EXCEPT
                       !.sent = Append(@, Payload(instruction, settings, chunk))]
    /\ UNCHANGED pipelineVars

PayloadNext == AsyncSendChunk \/ StreamingSendChunk

SpecPayload == PayloadInit /\ [][PayloadNext]_vars

\* C20: the request for chunk i carries the instruction of the selected tone,
\* one space and the chunk as its prompt, and the min_length and max_length
\* of the selected length: Short 30 and 60, Medium 50 and 120, Long 80 and
\* 200; every chunk of the request gets the same tone and length.
C20_PromptAndLengths ==
    (calc.op = "payload") =>
        \A i \in 1..Len(calc.sent) :
            LET p == calc.sent[i] IN
            /\ calc.tone = "Neutral" =>
                  p.inputs = "Summarize the following content clearly and concisely: "
                                \o calc.chunks[i]
            /\ calc.tone = "Professional" =>
                  p.inputs = "Write a formal and professional executive summary of the following content: "
                                \o calc.chunks[i]
            /\ calc.tone = "Casual" =>
                  p.inputs = "Explain the following content in a friendly and easy-to-understand tone: "
                                \o calc.chunks[i]
            /\ calc.length = "Short" => (p.min_length = 30 /\ p.max_length = 60)
            /\ calc.length = "Medium" => (p.min_length = 50 /\ p.max_length = 120)
            /\ calc.length = "Long" => (p.min_length = 80 /\ p.max_length = 200)
            /\ p.max_length = calc.sent[1].max_length
            /\ p.min_length = calc.sent[1].min_length

\* The three requests of a Casual, Long summary of three chunks were sent.
C20_Witness ==
    /\ calc.op = "payload"
    /\ calc.tone = "Casual"
    /\ calc.length = "Long"
    /\ Len(calc.chunks) = 3
    /\ Len(calc.sent) = 3
    /\ calc.sent[2].inputs =
          "Explain the following content in a friendly and easy-to-understand tone:  gamma."
    /\ calc.sent[3].min_length = 80

\* ---------------------------------------------------------------------
\* The paragraph formatter, format_summary_to_paragraphs.

MaxWords == 4
MaxSentences == 9

IsPunct(c) == c \in {".", "?", "!"}
IsUpper(c) == c \in {"A", "D", "S"}

\* Seeded fault: the separator is one whitespace character, \s for \s+.
SkipOneSpace(s, i) == IF i <= Len(s) /\ IsSpace(s[i]) THEN i + 1 ELSE i

\* The first position from i on that holds no whitespace (Len(s) + 1 if
\* there is none): where a match of \s+ starting at i ends.
RECURSIVE SkipSpaces(_, _)
SkipSpaces(s, i) ==
    IF i <= Len(s) /\ IsSpace(s[i]) THEN SkipSpaces(s, i + 1) ELSE i

\* re.split(r"(?<=[.?!])\s+(?=[A-Z])", s) from position i on, cur being the
\* piece under construction and out the pieces already cut: a run of
\* whitespace is a separator when the character before it is one of .?!
\* and the character after it is an upper-case letter.
RECURSIVE SplitFrom(_, _, _, _)
SplitFrom(s, i, cur, out) ==
    IF i > Len(s) THEN Append(out, cur)
    ELSE LET j == SkipSpaces(s, i) IN
         IF /\ i > 1
            /\ IsPunct(s[i - 1])
            /\ j > i
            /\ j <= Len(s)
            /\ IsUpper(s[j])
         THEN SplitFrom(s, j, <<>>, Append(out, cur))
         ELSE SplitFrom(s, i + 1, Append(cur, s[i]), out)

SplitSentences(s) == SplitFrom(s, 1, <<>>, <<>>)

\* Seeded fault: the last, incomplete group of sentences is dropped.
RECURSIVE GroupParagraphsDropRest(_)
GroupParagraphsDropRest(q) ==
    IF Len(q) < 3 THEN <<>>
    ELSE << JoinSpace(SubSeq(q, 1, 3)) >>
            \o GroupParagraphsDropRest(SubSeq(q, 4, Len(q)))

\* Seeded fault: the sentences of a paragraph are joined without a space.
RECURSIVE GroupParagraphsGlued(_)
GroupParagraphsGlued(q) ==
    IF q = <<>> THEN <<>>
    ELSE IF Len(q) <= 3 THEN << Concat(q) >>
    ELSE << Concat(SubSeq(q, 1, 3)) >> \o GroupParagraphsGlued(SubSeq(q, 4, Len(q)))

\* The loop over the sentences: every third sentence closes a paragraph,
\* the sentences left at the end make the last one.
RECURSIVE GroupParagraphs(_)
GroupParagraphs(q) ==
    IF q = <<>> THEN <<>>
    ELSE IF Len(q) <= 3 THEN << JoinSpace(q) >>
    ELSE << JoinSpace(SubSeq(q, 1, 3)) >> \o GroupParagraphs(SubSeq(q, 4, Len(q)))

\* Seeded fault: paragraphs are joined by a single line break.
RECURSIVE JoinSingleLine(_)
JoinSingleLine(ps) ==
    IF ps = <<>> THEN <<>>
    ELSE IF Len(ps) = 1 THEN ps[1]
    ELSE ps[1] \o << "\n" >> \o JoinSingleLine(Tail(ps))

\* "\n\n".join(paragraphs)
RECURSIVE JoinBlankLine(_)
JoinBlankLine(ps) ==
    IF ps = <<>> THEN <<>>
    ELSE IF Len(ps) = 1 THEN ps[1]
    ELSE ps[1] \o << "\n", "\n" >> \o JoinBlankLine(Tail(ps))

FormatSummaryToParagraphs(summary) ==
    JoinBlankLine(GroupParagraphs(SplitSentences(StripStr(summary))))

\* Summaries under study: up to MaxWords words with a space or a blank line
\* between them, bare or padded with whitespace, and runs of up to
\* MaxSentences one-word sentences.
Words == { << "D", "r", "." >>, << "S" >>, << "o" >>, << "o", "?" >> }
Separators == { << " " >>, << "\n", "\n" >> }

RECURSIVE Interleave(_, _)
Interleave(ws, seps) ==
    IF ws = <<>> THEN <<>>
    ELSE IF Len(ws) = 1 THEN ws[1]
    ELSE ws[1] \o seps[1] \o Interleave(Tail(ws), Tail(seps))

MixedSummaries ==
    UNION { { Interleave(ws, seps) :
                ws \in [1..n -> Words],
                seps \in [1..(IF n = 0 THEN 0 ELSE n - 1) -> Separators] } :
            n \in 0..MaxWords }

RegularSummaries ==
    { Interleave([k \in 1..n |-> << "D", "r", "." >>],
                 [k \in 1..(n - 1) |-> << " " >>]) : n \in 1..MaxSentences }

Summaries ==
    MixedSummaries
    \cup { << " " >> \o t \o << "\n" >> : t \in MixedSummaries }
    \cup RegularSummaries

FormatterInit ==
    /\ PipelineIdle
    /\ \E t \in Summaries :
          calc = [op |-> "format", summary |-> t, calls |-> 0,
                  formatted |-> <<>>, again |-> <<>>]

\* format_summary_to_paragraphs(summary)
FormatSummary ==
    /\ calc.op = "format"
    /\ calc.calls = 0
    /\ calc' = [calc EXCEPT !.calls = 1,
                            !.formatted = FormatSummaryToParagraphs(calc.summary)]
    /\ UNCHANGED pipelineVars

\* format_summary_to_paragraphs applied to its own result.
FormatAgain ==
    /\ calc.op = "format"
    /\ calc.calls = 1
    /\ calc' = [calc EXCEPT !.calls = 2,
                            !.again = FormatSummaryToParagraphs(calc.formatted)]
    /\ UNCHANGED pipelineVars

FormatterNext == FormatSummary \/ FormatAgain

SpecFormatter == FormatterInit /\ [][FormatterNext]_vars

\* The pieces of s between its blank lines, s.split("\n\n").
RECURSIVE SplitBlankFrom(_, _, _, _)
SplitBlankFrom(s, i, cur, out) ==
    IF i > Len(s) THEN Append(out, cur)
    ELSE IF i < Len(s) /\ s[i] = "\n" /\ s[i + 1] = "\n"
    THEN SplitBlankFrom(s, i + 2, <<>>, Append(out, cur))
    ELSE SplitBlankFrom(s, i + 1, Append(cur, s[i]), out)

ParagraphsOf(s) == SplitBlankFrom(s, 1, <<>>, <<>>)

\* The sentences of the summary under study, by the boundary rule.
SentencesOf(s) == SplitSentences(StripStr(s))

CeilDiv3(n) == (n + 2) \div 3

\* The output shows ceil(N/3) paragraphs between blank lines, the k-th being
\* sentences 3k-2 .. 3k (as far as there are) joined by single spaces.
GroupedInThrees(summary, formatted) ==
    LET sents == SentencesOf(summary)
        N == Len(sents)
        ps == ParagraphsOf(formatted)
    IN  /\ Len(ps) = CeilDiv3(N)
        /\ \A k \in 1..Len(ps) :
              ps[k] = JoinSpace(SubSeq(sents, 3 * k - 2,
                                       IF 3 * k < N THEN 3 * k ELSE N))

NoBlankLineInSentences(summary) ==
    \A i \in 1..Len(SentencesOf(summary)) :
        Len(ParagraphsOf(SentencesOf(summary)[i])) = 1

RECURSIVE WordCountFrom(_, _)
WordCountFrom(s, i) ==
    IF i > Len(s) THEN 0
    ELSE (IF ~IsSpace(s[i]) /\ (i = 1 \/ IsSpace(s[i - 1])) THEN 1 ELSE 0)
         + WordCountFrom(s, i + 1)

WordCount(s) == WordCountFrom(s, 1)

\* s.replace("\n\n", " ")
FlattenBlankLines(s) == JoinSpace(ParagraphsOf(s))

\* C22: the formatted summary, its paragraph breaks replaced by spaces, has
\* as many words as the summary.
C22_WordCountPreserved ==
    (calc.op = "format" /\ calc.calls >= 1)
        => WordCount(FlattenBlankLines(calc.formatted)) = WordCount(calc.summary)

\* A padded summary of four one-word sentences was formatted into two
\* paragraphs, so the output differs from the input and has its four words.
C22_Witness ==
    /\ calc.op = "format"
    /\ calc.calls >= 1
    /\ calc.summary = << " ", "D", "r", ".", "\n", "\n", "D", "r", ".", " ",
                         "D", "r", ".", " ", "S", "\n" >>
    /\ calc.formatted = << "D", "r", ".", " ", "D", "r", ".", " ",
                           "D", "r", ".", "\n", "\n", "S" >>
    /\ WordCount(calc.summary) = 4

\* The number of places where piece occurs in s.
Occurrences(piece, s) ==
    Cardinality({ i \in 1..Len(s) :
                    /\ i + Len(piece) - 1 <= Len(s)
                    /\ SubSeq(s, i, i + Len(piece) - 1) = piece })

DrSpaceS == << "D", "r", ".", " ", "S" >>

EndsWithAbbreviation(sentence) ==
    /\ Len(sentence) >= 3
    /\ SubSeq(sentence, Len(sentence) - 2, Len(sentence)) = << "D", "r", "." >>

\* Where sentence j ends in the output, if sentences are separated by one
\* character inside a paragraph and by two between paragraphs.
RECURSIVE EndOfSentence(_, _)
EndOfSentence(sents, j) ==
    IF j = 0 THEN 0
    ELSE EndOfSentence(sents, j - 1)
         + (IF j = 1 THEN 0 ELSE IF (j - 1) % 3 = 0 THEN 2 ELSE 1)
         + Len(sents[j])

C29_FormatIdempotent ==
    (calc.op = "format" /\ calc.calls = 2) => calc.again = calc.formatted

\* A summary of four sentences, separated otherwise than the formatter
\* separates them, was formatted twice.
C29_Witness ==
    /\ calc.op = "format"
    /\ calc.calls = 2
    /\ calc.summary # calc.formatted
    /\ Len(SentencesOf(calc.summary)) = 4
    /\ Len(ParagraphsOf(calc.formatted)) = 2
    /\ calc.again = calc.formatted

\* ---------------------------------------------------------------------
\* The progress figures of the stream.

\* Seeded fault: chunk_processing computes its progress like chunk_complete.
ProgressOffByOne(e) == [num |-> 100 * (e.index + 1), den |-> e.total]

\* The "progress" of a chunk event, as the fraction num/den:
\* (chunk_index / total_chunks) * 100 in chunk_processing and
\* ((chunk_index + 1) / total_chunks) * 100 in chunk_complete.
Progress(e) ==
    IF e.event = "chunk_processing"
    THEN [num |-> 100 * e.index, den |-> e.total]
    ELSE [num |-> 100 * (e.index + 1), den |-> e.total]

HasProgress(e) == e.event \in {"chunk_processing", "chunk_complete"}

\* p <= q for fractions with positive denominators.
FracLeq(p, q) == p.num * q.den <= q.num * p.den

ChunkProcessingCount(r) ==
    Cardinality({ j \in 1..Len(events[r]) :
                    events[r][j].event = "chunk_processing" })

\* C25: a stream issues the call for chunk i only when it is resumed after
\* chunk_processing of chunk i was handed over, and once its consumer has
\* cancelled it issues no call, receives no response and emits no event any
\* more.
C25_LazyStream ==
    /\ [](\A r \in Req :
            mode[r] = "stream" =>
                /\ Len(callLog[r]) <= ChunkProcessingCount(r)
                /\ pc[r] = "y_chunk_start" =>
                      /\ Last(events[r]).event = "chunk_processing"
                      /\ Last(events[r]).index = idx[r]
                      /\ Len(callLog[r]) = idx[r]
                /\ \A j \in 1..Len(callLog[r]) :
                      /\ 2 * j + 1 <= Len(events[r])
                      /\ events[r][2 * j + 1].event = "chunk_processing"
                      /\ events[r][2 * j + 1].index = callLog[r][j])
    /\ [][\A r \in Req :
            pc[r] = "cancelled" =>
                /\ pc'[r] = "cancelled"
                /\ callLog'[r] = callLog[r]
                /\ responses'[r] = responses[r]
                /\ events'[r] = events[r]]_vars

\* The consumer of a three-chunk stream cancelled after chunk_processing of
\* the second chunk: the call for the first chunk is the only one made.
C25_Witness ==
    \E r \in Req :
        /\ pc[r] = "cancelled"
        /\ NChunks(r) = 3
        /\ Last(events[r]).event = "chunk_processing"
        /\ Last(events[r]).index = 1
        /\ callLog[r] = << 0 >>

\* ---------------------------------------------------------------------
\* The charge of a blocking request stays.

\* The text lengths of the blocking requests of S whose extraction has
\* returned text that is not blank.
RECURSIVE BlockingCharges(_)
BlockingCharges(S) ==
    IF S = {} THEN 0
    ELSE LET r == CHOOSE x \in S : TRUE IN
         (IF mode[r] = "blocking" /\ extracted[r] /\ ~IsBlank(text[r])
          THEN text[r].len ELSE 0)
             + BlockingCharges(S \ {r})

\* A blocking request whose summarization failed after its extraction had
\* succeeded.
FailedAfterExtraction(r) ==
    /\ mode[r] = "blocking"
    /\ pc[r] = "done"
    /\ extracted[r]
    /\ ~IsBlank(text[r])
    /\ result[r].status # 200

\* C26: a blocking request is charged len(text) in the step in which its
\* extraction succeeds, before its first remote call, and nothing is ever
\* given back: at every moment the counters hold what they held at the
\* start plus the text lengths of all blocking requests whose extraction
\* has succeeded, whatever these requests ended in.
C26_ChargeKeptOnFailure ==
    /\ [][\A r \in Req :
            (ExtractionSucceeds(r) /\ mode[r] = "blocking") =>
                /\ callLog[r] = <<>>
                /\ UsageGet(usage', month) = UsageGet(usage, month) + text'[r].len]_vars
    /\ [](TotalUsage(usage, DOMAIN usage)
            = TotalUsage(usageAtStart, DOMAIN usageAtStart) + BlockingCharges(Req))
    /\ [](\A r \in Req :
            FailedAfterExtraction(r) =>
                \E k \in DOMAIN usage :
                    usage[k] >= UsageGet(usageAtStart, k) + text[r].len)

\* One blocking request ended in the end-to-end timeout during a call and
\* another in a remote error; the counters hold the lengths of both texts.
C26_Witness ==
    /\ \E r \in Req :
          FailedAfterExtraction(r) /\ result[r].status = 504 /\ Outstanding(r) = 1
    /\ \E r \in Req :
          FailedAfterExtraction(r) /\ result[r].cause = "rate_limit"
    /\ TotalUsage(usage, DOMAIN usage)
          = TotalUsage(usageAtStart, DOMAIN usageAtStart) + BlockingCharges(Req)
    /\ BlockingCharges(Req) = 2400 + 500

\* ---------------------------------------------------------------------
\* Termination.

\* Request r was admitted and its handler or generator has not ended.
InFlight(r) == pc[r] \in Suspended \cup {"created", "extracting", "calling"}

\* Request r ended in Complete or in Error.
Terminal(r) ==
    /\ pc[r] = "done"
    /\ IF mode[r] = "blocking"
       THEN result[r].status \in {200, 400, 500, 504}
       ELSE /\ events[r] # <<>>
            /\ Last(events[r]).event \in {"complete", "error"}

\* C27: while extractions and remote calls end and consumers keep
\* consuming, every admitted request reaches Complete or Error; no chunk is
\* posted twice and no more calls are made than the text has chunks; an
\* admitted request that has not ended always has a next step.
C27_EveryRequestEnds ==
    /\ \A r \in Req : InFlight(r) ~> Terminal(r)
    /\ [](\A r \in Req :
            /\ Len(callLog[r]) <= NChunks(r)
            /\ \A i, j \in DOMAIN callLog[r] :
                  i # j => callLog[r][i] # callLog[r][j])
    /\ [](\A r \in Req : InFlight(r) => ENABLED Advance(r))

\* A blocking request and a stream request of two chunks or more have both
\* ended, one call per chunk behind them.
C27_Witness ==
    \E r, q \in Req :
        /\ mode[r] = "blocking" /\ mode[q] = "stream"
        /\ Terminal(r) /\ Terminal(q)
        /\ NChunks(r) >= 2 /\ Len(callLog[r]) = NChunks(r)
        /\ NChunks(q) >= 2 /\ Len(callLog[q]) = NChunks(q)

\* ---------------------------------------------------------------------
\* The compression ratio.

\* Request r is where len(summary) / len(text) is evaluated or was: the
\* blocking response was built, or the generator is at or past the complete
\* event.
RatioEvaluated(r) ==
    \/ BlockingSucceeded(r)
    \/ StreamCompleted(r)
    \/ mode[r] = "stream" /\ pc[r] \in {"y_formatting", "y_complete"}

\* C28: the compression ratio is evaluated only over a text that is not
\* empty: where the Complete payload is built the extracted text has a
\* character that is not whitespace, and a request whose text is empty or
\* whitespace only makes no remote call and ends in an error.
C28_RatioDivisorPositive ==
    \A r \in Req :
        /\ RatioEvaluated(r) =>
              /\ extracted[r]
              /\ text[r].len > 0
              /\ Strip(text[r]).len > 0
              /\ NChunks(r) >= 1
        /\ (extracted[r] /\ Strip(text[r]).len = 0) =>
              /\ callLog[r] = <<>>
              /\ pc[r] = "done" =>
                    IF mode[r] = "blocking"
                    THEN result[r].status = 400
                    ELSE Last(events[r]).event = "error"

\* Both modes have built their Complete payload, and a request whose
\* document holds whitespace only has ended.
C28_Witness ==
    /\ \E r \in Req : BlockingSucceeded(r) /\ text[r].len > 0
    /\ \E r \in Req : StreamCompleted(r) /\ pc[r] = "done" /\ text[r].len > 0

\* Documents of whitespace only, whose extracted text is empty, have ended
\* in an error in both modes without a remote call.
C28_WitnessBlank ==
    \E r, q \in Req :
        /\ mode[r] = "blocking" /\ mode[q] = "stream"
        /\ extracted[r] /\ text[r].len = 0 /\ pc[r] = "done"
        /\ extracted[q] /\ text[q].len = 0 /\ pc[q] = "done"

====
